---- MODULE Spec2Model ----
\* Anchoring service glue (src/src/service/mod.rs): the signature collector
\* collect_signatures, transaction admission (AnchoringTransaction::verify) and
\* the Service callbacks handle_genesis_block / handle_commit.
EXTENDS Integers, Sequences, FiniteSets, TLC

\* ---------------------------------------------------------------- bounds
MaxInputs == 2          \* a proposal has 0..MaxInputs inputs
MaxValidators == 3      \* genesis.validators.len() is 1..MaxValidators
MaxMsgs == 2            \* stored signature messages
MaxHeight == 3          \* handle_commit calls
MaxGenesisCalls == 1    \* handle_genesis_block calls

VARIABLES
    \* --- signature collection
    proposal,        \* proposal.inputs(): the set of input indices
    validators,      \* genesis.validators.len()
    majority_count,  \* genesis.majority_count()
    msgs,            \* admitted TxAnchoringSignature messages, in arrival order
    collected,       \* outcome of the last collect_signatures call
    \* --- service callbacks
    genesis,         \* AnchoringService.genesis
    pc,              \* position of the host's callback thread
    owner,           \* holder of the handler mutex ("none" when free)
    poisoned,        \* the handler mutex is poisoned
    node,            \* "running" or "aborted" (process ended by a panic)
    imported,        \* addresses registered with the RPC collaborator
    stored,          \* genesis configuration persisted by AnchoringSchema
    step,            \* result of the handler's per-block step in flight
    rpc,             \* result of the last importaddress call
    last,            \* what the last finished callback gave the host
    calls,           \* handle_commit calls started
    steps,           \* handler per-block steps run
    returns,         \* handle_commit calls that returned to the host
    gcalls,          \* handle_genesis_block calls started
    logged,          \* error! lines written
    \* --- ledger state and other threads
    lects,           \* the transaction each validator announced last
    lect,            \* the agreed LECT
    hashes,          \* result of the last state_hash call
    apc              \* position of a thread that holds a clone of handler()

collectVars == <<proposal, validators, majority_count, msgs, collected>>
serviceVars == <<genesis, pc, owner, poisoned, node, imported, stored, step, rpc,
                 last, calls, steps, returns, gcalls, logged>>
ledgerVars == <<lects, lect, hashes>>
vars == <<proposal, validators, majority_count, msgs, collected,
          genesis, pc, owner, poisoned, node, imported, stored, step, rpc,
          last, calls, steps, returns, gcalls, logged,
          lects, lect, hashes, apc>>

\* ------------------------------------------------- signature collection
Signatures == {"sigA", "sigB"}
Keys == {"k0", "k1"}

\* Option<Vec<u8>>: None is the empty sequence, Some(s) the one-element one.
NoSig == <<>>
SomeSig(s) == <<s>>

\* Outcomes of collect_signatures: a panic, None, or Some(map).
Aborted == [tag |-> "Abort", map |-> <<>>]
Incomplete == [tag |-> "None", map |-> <<>>]
Complete(m) == [tag |-> "Some", map |-> m]
NotCalled == [tag |-> "NotCalled", map |-> <<>>]

Min(a, b) == IF a < b THEN a ELSE b

\* Lines 110-113: one slot per validator for every input of the proposal.
InitSignatures(inputs, n) == [i \in inputs |-> [v \in 0..(n - 1) |-> NoSig]]

\* Mutants of StoreSignature: the first signature of a slot is kept; a slot
\* accumulates every signature it is given.
StoreSignatureFirstWins(signatures, msg) ==
    IF msg.input \notin DOMAIN signatures
    THEN [ok |-> FALSE, slots |-> signatures]
    ELSE IF msg.validator \notin DOMAIN signatures[msg.input]
    THEN [ok |-> FALSE, slots |-> signatures]
    ELSE IF signatures[msg.input][msg.validator] # NoSig
    THEN [ok |-> TRUE, slots |-> signatures]
    ELSE [ok |-> TRUE,
          slots |-> [signatures EXCEPT ![msg.input][msg.validator] =
                                            SomeSig(msg.signature)]]
StoreSignaturePush(signatures, msg) ==
    IF msg.input \notin DOMAIN signatures
    THEN [ok |-> FALSE, slots |-> signatures]
    ELSE IF msg.validator \notin DOMAIN signatures[msg.input]
    THEN [ok |-> FALSE, slots |-> signatures]
    ELSE [ok |-> TRUE,
          slots |-> [signatures EXCEPT ![msg.input][msg.validator] =
                                            @ \o SomeSig(msg.signature)]]

\* Mutants of StoreSignature: the signature is written into the slot arrays of
\* all inputs; the signature goes to the first empty slot, in arrival order.
StoreSignatureAllInputs(signatures, msg) ==
    IF msg.input \notin DOMAIN signatures
    THEN [ok |-> FALSE, slots |-> signatures]
    ELSE IF msg.validator \notin DOMAIN signatures[msg.input]
    THEN [ok |-> FALSE, slots |-> signatures]
    ELSE [ok |-> TRUE,
          slots |-> [i \in DOMAIN signatures |->
                        [signatures[i] EXCEPT ![msg.validator] =
                                                  SomeSig(msg.signature)]]]
StoreSignatureArrivalOrder(signatures, msg) ==
    IF msg.input \notin DOMAIN signatures
    THEN [ok |-> FALSE, slots |-> signatures]
    ELSE IF msg.validator \notin DOMAIN signatures[msg.input]
    THEN [ok |-> FALSE, slots |-> signatures]
    ELSE LET free == {v \in DOMAIN signatures[msg.input] :
                          signatures[msg.input][v] = NoSig}
         IN  IF free = {}
             THEN [ok |-> TRUE, slots |-> signatures]
             ELSE [ok |-> TRUE,
                   slots |-> [signatures EXCEPT
                                 ![msg.input][CHOOSE v \in free :
                                                  \A u \in free : v <= u] =
                                     SomeSig(msg.signature)]]

\* Lines 116-120, one message: [ok |-> FALSE] stands for the panic of
\* get_mut(&input).unwrap() or of the out-of-bounds index.
StoreSignature(signatures, msg) ==
    IF msg.input \notin DOMAIN signatures
    THEN [ok |-> FALSE, slots |-> signatures]
    ELSE IF msg.validator \notin DOMAIN signatures[msg.input]
    THEN [ok |-> FALSE, slots |-> signatures]
    ELSE [ok |-> TRUE,
          slots |-> [signatures EXCEPT ![msg.input][msg.validator] =
                                            SomeSig(msg.signature)]]

\* Lines 115-121: the loop over msgs.
RECURSIVE ApplyMsgs(_, _)
ApplyMsgs(signatures, ms) ==
    IF ms = <<>>
    THEN [ok |-> TRUE, slots |-> signatures]
    ELSE LET r == StoreSignature(signatures, Head(ms))
         IN  IF r.ok THEN ApplyMsgs(r.slots, Tail(ms)) ELSE r

\* Mutant of FilterMap: the slots are read from the highest index down.
RECURSIVE FilterMapDescending(_, _, _)
FilterMapDescending(slots, v, n) ==
    IF v >= n THEN <<>> ELSE FilterMapDescending(slots, v + 1, n) \o slots[v]

\* Line 129: filter_map(|x| x) over the slots in index order 0..n-1.
RECURSIVE FilterMap(_, _, _)
FilterMap(slots, v, n) ==
    IF v >= n THEN <<>> ELSE slots[v] \o FilterMap(slots, v + 1, n)

\* Mutant of Take: nothing is cut off.
TakeAll(s, c) == s

\* Line 130: take(majority_count).
Take(s, c) == SubSeq(s, 1, Min(c, Len(s)))

\* Lines 128-131 for one input.
InputSignatures(slots, n, majority) == Take(FilterMap(slots, 0, n), majority)

\* Lines 104-139.
collect_signatures(inputs, n, majority, ms) ==
    LET r == ApplyMsgs(InitSignatures(inputs, n), ms)
        actual == [i \in inputs |-> InputSignatures(r.slots[i], n, majority)]
    IN  IF ~r.ok THEN Aborted
        ELSE IF \E i \in inputs : Len(actual[i]) < majority THEN Incomplete
        ELSE Complete(actual)

\* Lines 54-56: verify checks the message's signature against its own sender key.
verify(tx) == tx.signed_by = tx.from

\* The transactions that can arrive.  Indices are u32: nothing in the message
\* format ties them to the proposal or to the validator set.
RawTxs ==
    [input : 0..(MaxInputs - 1), validator : 0..(MaxValidators - 1),
     signature : Signatures, from : Keys, signed_by : Keys]

Stored(tx) == [input |-> tx.input, validator |-> tx.validator,
               signature |-> tx.signature]

InitCollect ==
    /\ proposal \in {0..(k - 1) : k \in 0..MaxInputs}
    /\ validators \in 1..MaxValidators
    /\ majority_count \in 1..validators
    /\ msgs = <<>>
    /\ collected = NotCalled

\* Line 60: TxAnchoringSignature::execute stores the message with the
\* signatures of its proposal.
execute(ms, tx) == Append(ms, Stored(tx))

\* A signature transaction arrives: it is executed when verify holds and
\* dropped otherwise.
Submit(tx) ==
    /\ Len(msgs) < MaxMsgs
    /\ IF verify(tx)
       THEN msgs' = execute(msgs, tx) /\ collected' = NotCalled
       ELSE UNCHANGED <<msgs, collected>>
    /\ UNCHANGED <<proposal, validators, majority_count>>
    /\ UNCHANGED <<serviceVars, ledgerVars, apc>>

\* The handler collects the signatures of the proposal.
Collect ==
    /\ collected = NotCalled
    /\ collected' = collect_signatures(proposal, validators, majority_count, msgs)
    /\ UNCHANGED <<proposal, validators, majority_count, msgs>>
    /\ UNCHANGED <<serviceVars, ledgerVars, apc>>


\* ------------------------------------------------------- ledger state
TxIds == {"txA", "txB"}
\* The LECT before any agreement: the funding transaction.
Funding == "funding"
NoTx == "none"

\* No announcement stored, no state_hash call made, no other thread inside.
InitLedgerIdle ==
    /\ lects = <<>> /\ lect = Funding /\ hashes = <<>> /\ apc = "out"

\* ---------------------------------------------------- service callbacks
Configs == {"cfgA", "cfgB"}
RpcErrors == {"rpc1", "rpc2"}
StorageErrors == {"io1", "io2"}

Ok == <<"Ok">>
Panicked == <<"Panic">>
Nothing == <<>>
RpcErr(e) == <<"Rpc", e>>
StorageErr(e) == <<"Storage", e>>
IsRpcErr(r) == Len(r) = 2 /\ r[1] = "Rpc"
IsStorageErr(r) == Len(r) = 2 /\ r[1] = "Storage"

\* Result<_, StorageError> as the host sees it.
RetOk(v) == <<"Ok", v>>
RetErr(e) == <<"Err", e>>

\* Results of AnchoringHandler::handle_commit: Result<(), ServiceError>.
HandlerResults ==
    {Ok} \cup {RpcErr(e) : e \in RpcErrors} \cup {StorageErr(e) : e \in StorageErrors}
\* Results of AnchoringRpc::importaddress.
ImportResults == {Ok} \cup {RpcErr(e) : e \in RpcErrors}
\* Results of AnchoringSchema::create_genesis_config.
PersistResults == {Ok} \cup {StorageErr(e) : e \in StorageErrors}

\* Lines 82, 84: the P2SH address of a configuration, in base58check.
Address(cfg) == <<"p2sh", cfg>>
\* Line 88: cfg.to_json().
to_json(cfg) == <<"json", cfg>>

\* Mutant of ImportUnwrap: the result of importaddress is dropped.
ImportIgnored(res) == "continue"

\* Lines 83-85: importaddress(..).unwrap().
ImportUnwrap(res) == IF res = Ok THEN "continue" ELSE "panic"

\* Lines 87-88: create_genesis_config(&cfg)?; Ok(cfg.to_json()).
GenesisResult(cfg, res) == IF res = Ok THEN RetOk(to_json(cfg)) ELSE RetErr(res[2])

\* Mutants of CommitResult: an RPC error is returned to the host; a storage
\* error is replaced by another one.
CommitResultPropagating(res) ==
    IF IsRpcErr(res) THEN RetErr(res[2])
    ELSE IF IsStorageErr(res) THEN RetErr(res[2])
    ELSE RetOk(Nothing)
CommitResultRewrapped(res) ==
    IF IsRpcErr(res) THEN RetOk(Nothing)
    ELSE IF IsStorageErr(res) THEN RetErr("io1")
    ELSE RetOk(Nothing)

\* Lines 93-100: the match on the handler's result.
CommitResult(res) ==
    IF IsRpcErr(res) THEN RetOk(Nothing)
    ELSE IF IsStorageErr(res) THEN RetErr(res[2])
    ELSE RetOk(Nothing)
\* Line 95: error! is written for an RPC error only.
CommitLogs(res) == IF IsRpcErr(res) THEN 1 ELSE 0

Finished(call, cause, ret) == [call |-> call, cause |-> cause, ret |-> ret]

InitService ==
    /\ genesis \in Configs
    /\ pc = "idle"
    /\ owner = "none"
    /\ poisoned = FALSE
    /\ node = "running"
    /\ imported = {}
    /\ stored = Nothing
    /\ step = Nothing
    /\ rpc = Nothing
    /\ last = Finished("none", Nothing, Nothing)
    /\ calls = 0
    /\ steps = 0
    /\ returns = 0
    /\ gcalls = 0
    /\ logged = 0

\* A panic in callback `call`.  The build either ends the process or unwinds
\* the calling thread; unwinding drops the MutexGuard, which poisons the mutex.
Panic(call, cause, holding) ==
    /\ last' = Finished(call, cause, Panicked)
    /\ owner' = "none"
    /\ \/ node' = "aborted" /\ pc' = "dead" /\ UNCHANGED poisoned
       \/ node' = "running" /\ pc' = "idle" /\ poisoned' = (poisoned \/ holding)

\* Line 80: self.handler.lock().unwrap() in handle_genesis_block.
GenesisLock ==
    /\ pc = "idle" /\ node = "running" /\ owner = "none"
    /\ calls = 0 /\ gcalls < MaxGenesisCalls
    /\ gcalls' = gcalls + 1
    /\ IF poisoned
       THEN Panic("genesis", Nothing, FALSE)
       ELSE owner' = "host" /\ pc' = "g_import" /\ UNCHANGED <<poisoned, node, last>>
    /\ UNCHANGED <<genesis, imported, stored, step, rpc, calls, steps, returns, logged>>
    /\ UNCHANGED <<collectVars, ledgerVars, apc>>

\* Lines 81-85: derive the address and register it.
GenesisImport(res) ==
    /\ pc = "g_import"
    /\ rpc' = res
    /\ imported' = IF res = Ok THEN imported \cup {Address(genesis)} ELSE imported
    /\ IF ImportUnwrap(res) = "continue"
       THEN pc' = "g_persist" /\ UNCHANGED <<owner, poisoned, node, last>>
       ELSE Panic("genesis", res, TRUE)
    /\ UNCHANGED <<genesis, stored, step, calls, steps, returns, gcalls, logged>>
    /\ UNCHANGED <<collectVars, ledgerVars, apc>>

\* Lines 87-89: persist the configuration and return.
GenesisPersist(res) ==
    /\ pc = "g_persist"
    /\ stored' = IF res = Ok THEN <<genesis>> ELSE stored
    /\ last' = Finished("genesis", res, GenesisResult(genesis, res))
    /\ owner' = "none"
    /\ pc' = "idle"
    /\ UNCHANGED <<genesis, poisoned, node, imported, step, rpc, calls, steps,
                   returns, gcalls, logged>>
    /\ UNCHANGED <<collectVars, ledgerVars, apc>>

\* Mutant of CommitLock: the handler is entered without waiting for the mutex.
CommitLockUnguarded ==
    /\ pc = "idle" /\ node = "running"
    /\ calls < MaxHeight
    /\ calls' = calls + 1
    /\ IF poisoned
       THEN Panic("commit", Nothing, FALSE)
       ELSE owner' = "host" /\ pc' = "c_step" /\ UNCHANGED <<poisoned, node, last>>
    /\ UNCHANGED <<genesis, imported, stored, step, rpc, steps, returns, gcalls, logged>>
    /\ UNCHANGED <<collectVars, ledgerVars, apc>>

\* Line 93: self.handler.lock().unwrap() in handle_commit.
CommitLock ==
    /\ pc = "idle" /\ node = "running" /\ owner = "none"
    /\ calls < MaxHeight
    /\ calls' = calls + 1
    /\ IF poisoned
       THEN Panic("commit", Nothing, FALSE)
       ELSE owner' = "host" /\ pc' = "c_step" /\ UNCHANGED <<poisoned, node, last>>
    /\ UNCHANGED <<genesis, imported, stored, step, rpc, steps, returns, gcalls, logged>>
    /\ UNCHANGED <<collectVars, ledgerVars, apc>>

\* Line 93: the handler's per-block step, AnchoringHandler::handle_commit(state).
CommitStep(res) ==
    /\ pc = "c_step"
    /\ step' = res
    /\ steps' = steps + 1
    /\ pc' = "c_match"
    /\ UNCHANGED <<genesis, owner, poisoned, node, imported, stored, rpc, last,
                   calls, returns, gcalls, logged>>
    /\ UNCHANGED <<collectVars, ledgerVars, apc>>

\* Lines 93-100: match the result, release the handler, return to the host.
CommitReturn ==
    /\ pc = "c_match"
    /\ last' = Finished("commit", step, CommitResult(step))
    /\ logged' = logged + CommitLogs(step)
    /\ returns' = returns + 1
    /\ owner' = "none"
    /\ pc' = "idle"
    /\ UNCHANGED <<genesis, poisoned, node, imported, stored, step, rpc, calls,
                   steps, gcalls>>
    /\ UNCHANGED <<collectVars, ledgerVars, apc>>

Next ==
    \/ GenesisLock
    \/ \E res \in ImportResults : GenesisImport(res)
    \/ \E res \in PersistResults : GenesisPersist(res)
    \/ CommitLock
    \/ \E res \in HandlerResults : CommitStep(res)
    \/ CommitReturn

\* ------------------------------------------------------- specifications
\* The service callbacks, with no signature traffic.
Init ==
    /\ InitService
    /\ proposal = {} /\ validators = 1 /\ majority_count = 1
    /\ msgs = <<>> /\ collected = NotCalled
    /\ InitLedgerIdle
Spec == Init /\ [][Next]_vars

\* Admission and collection of signatures, with the callbacks idle.
InitC ==
    /\ InitCollect
    /\ genesis = "cfgA" /\ pc = "idle" /\ owner = "none" /\ poisoned = FALSE
    /\ node = "running" /\ imported = {} /\ stored = Nothing /\ step = Nothing
    /\ rpc = Nothing /\ last = Finished("none", Nothing, Nothing)
    /\ calls = 0 /\ steps = 0 /\ returns = 0 /\ gcalls = 0 /\ logged = 0
    /\ InitLedgerIdle
NextC ==
    \/ \E tx \in RawTxs : Submit(tx)
    \/ Collect
SpecCollect == InitC /\ [][NextC]_vars

\* ------------------------------------------------ a second thread
\* Lines 48-50: another thread holds the Arc<Mutex<AnchoringHandler>> that
\* handler() returned and locks it to reach the handler.  lock() waits for the
\* mutex; on a poisoned mutex it gives Err(PoisonError), which the caller
\* unwraps (its thread ends) or opens to take the guard all the same.
ApiLock ==
    /\ apc = "out" /\ node = "running" /\ owner = "none"
    /\ IF poisoned
       THEN \/ apc' = "dead" /\ UNCHANGED owner
            \/ apc' = "in" /\ owner' = "api"
       ELSE apc' = "in" /\ owner' = "api"
    /\ UNCHANGED <<genesis, pc, poisoned, node, imported, stored, step, rpc,
                   last, calls, steps, returns, gcalls, logged>>
    /\ UNCHANGED <<collectVars, ledgerVars>>

\* The thread drops its MutexGuard.
ApiUnlock ==
    /\ apc = "in"
    /\ apc' = "out"
    /\ owner' = "none"
    /\ UNCHANGED <<genesis, pc, poisoned, node, imported, stored, step, rpc,
                   last, calls, steps, returns, gcalls, logged>>
    /\ UNCHANGED <<collectVars, ledgerVars>>

\* The callbacks of the host thread next to the second thread.
NextT ==
    \/ GenesisLock
    \/ \E res \in ImportResults : GenesisImport(res)
    \/ \E res \in PersistResults : GenesisPersist(res)
    \/ CommitLock
    \/ \E res \in HandlerResults : CommitStep(res)
    \/ CommitReturn
    \/ ApiLock
    \/ ApiUnlock
SpecThreads == Init /\ [][NextT]_vars

\* ------------------------------------------- LECT updates and state_hash
\* Mutant of state_hash: one hash for every stored signature.
StateHashOfSignatures(view) == RetOk([j \in 1..Len(view[1]) |-> "hash"])

\* Lines 71-73: state_hash ignores the view and returns Ok(Vec::new()).
state_hash(view) == RetOk(<<>>)

\* The View: stored signatures, LECT announcements, agreed LECT, configuration.
View == <<msgs, lects, lect, stored>>

\* The LECT-update transactions that can arrive.
LectTxs ==
    [validator : 0..(MaxValidators - 1), tx : TxIds, from : Keys, signed_by : Keys]

\* The validators whose last announcement is t.
Announcers(ls, t) == {v \in DOMAIN ls : ls[v] = t}

\* Mutant of AgreedLect: a single announcement is adopted.
AgreedLectUnilateral(ls, cur, t, majority) == t

\* The LECT after validators announced ls, the last of them t: t once
\* majority_count validators announce it, the current LECT otherwise.
AgreedLect(ls, cur, t, majority) ==
    IF Cardinality(Announcers(ls, t)) >= majority THEN t ELSE cur

\* Line 61: TxAnchoringUpdateLatest::execute records the announcement of the
\* validator and re-evaluates the agreement.
execute_lect(ls, tx) == [ls EXCEPT ![tx.validator] = tx.tx]

\* A LECT-update transaction of a validator arrives: executed when verify holds.
LectUpdate(tx) ==
    /\ tx.validator < validators
    /\ IF verify(tx)
       THEN /\ lects' = execute_lect(lects, tx)
            /\ lect' = AgreedLect(execute_lect(lects, tx), lect, tx.tx, majority_count)
            /\ hashes' = Nothing
       ELSE UNCHANGED <<lects, lect, hashes>>
    /\ UNCHANGED <<collectVars, serviceVars, apc>>

\* The host asks the service for its state hashes.
StateHash ==
    /\ hashes = Nothing
    /\ hashes' = state_hash(View)
    /\ UNCHANGED <<collectVars, serviceVars, lects, lect, apc>>

\* A ledger with at most one stored signature and no announcement yet.
InitL ==
    /\ proposal = 0..(MaxInputs - 1)
    /\ validators \in 1..MaxValidators
    /\ majority_count \in 1..validators
    /\ msgs \in {<<>>} \cup {<<Stored(tx)>> : tx \in RawTxs}
    /\ collected = NotCalled
    /\ genesis = "cfgA" /\ pc = "idle" /\ owner = "none" /\ poisoned = FALSE
    /\ node = "running" /\ imported = {} /\ stored \in {Nothing, <<"cfgA">>}
    /\ step = Nothing
    /\ rpc = Nothing /\ last = Finished("none", Nothing, Nothing)
    /\ calls = 0 /\ steps = 0 /\ returns = 0 /\ gcalls = 0 /\ logged = 0
    /\ lects = [v \in 0..(validators - 1) |-> NoTx]
    /\ lect = Funding /\ hashes = Nothing /\ apc = "out"
NextL ==
    \/ \E tx \in LectTxs : LectUpdate(tx)
    \/ StateHash
SpecLedger == InitL /\ [][NextL]_vars

\* ------------------------------------------------------------ properties
Range(ms) == {ms[j] : j \in 1..Len(ms)}
SamePair(a, b) == a.input = b.input /\ a.validator = b.validator
\* The validator indices that contributed for input i.
Contributors(ms, i) == {m.validator : m \in {x \in Range(ms) : x.input = i}}
\* The signature of the last message of the pair (i, v).
LastSig(ms, i, v) ==
    LET js == {j \in 1..Len(ms) : ms[j].input = i /\ ms[j].validator = v}
        j == CHOOSE j \in js : \A k \in js : k <= j
    IN  ms[j].signature
\* The place of v among the members of S, in ascending order.
Rank(S, v) == Cardinality({u \in S : u < v}) + 1
InsertAt(ms, p, m) == SubSeq(ms, 1, p - 1) \o <<m>> \o SubSeq(ms, p, Len(ms))
InRange(ms) ==
    \A j \in 1..Len(ms) : ms[j].input \in proposal /\ ms[j].validator < validators
Enough(ms) ==
    \A i \in proposal : Cardinality(Contributors(ms, i)) >= majority_count

\* C1: collect_signatures returns a result exactly when every input of the
\* proposal has contributions from at least majority_count distinct validators,
\* and None otherwise; a returned map has every input of the proposal.
C1_AllOrNothing ==
    collected # NotCalled =>
        /\ collected.tag \in {"Some", "None"}
        /\ collected.tag = "Some" <=> Enough(msgs)
        /\ collected.tag = "Some" => DOMAIN collected.map = proposal

\* C1 on the sequences whose indices are all in range (not the claim itself:
\* the part of it that the code keeps).
C1_AllOrNothingInRange == InRange(msgs) => C1_AllOrNothing

\* C2: in a returned result the signatures of an input are in strictly
\* ascending order of the validators that contributed them: some set of
\* validators, read in ascending order, contributed the sequence entry by entry.
C2_AscendingOrder ==
    collected.tag = "Some" =>
        \A i \in proposal :
            LET seq == collected.map[i]
            IN  \E S \in SUBSET (0..(validators - 1)) :
                    /\ Cardinality(S) = Len(seq)
                    /\ \A v \in S :
                           [input |-> i, validator |-> v,
                            signature |-> seq[Rank(S, v)]] \in Range(msgs)

\* Two validators contributed different signatures for one input, the higher
\* index first, and both signatures are in the result.
C2_Witness ==
    /\ collected.tag = "Some"
    /\ \E j \in 1..Len(msgs), k \in 1..Len(msgs) :
           /\ j < k
           /\ msgs[j].input = msgs[k].input
           /\ msgs[j].validator > msgs[k].validator
           /\ msgs[j].signature # msgs[k].signature
           /\ Len(collected.map[msgs[j].input]) >= 2

\* C3: a slot holds the signature of the last message of its (input,
\* validator) pair, and the result carries that signature at the place of the
\* validator, never an earlier one.
C3_LastWriteWins ==
    /\ LET r == ApplyMsgs(InitSignatures(proposal, validators), msgs)
       IN  r.ok => \A i \in proposal : \A v \in Contributors(msgs, i) :
                       r.slots[i][v] = SomeSig(LastSig(msgs, i, v))
    /\ collected.tag = "Some" =>
           \A i \in proposal : \A v \in Contributors(msgs, i) :
               Rank(Contributors(msgs, i), v) <= Len(collected.map[i]) =>
                   collected.map[i][Rank(Contributors(msgs, i), v)]
                       = LastSig(msgs, i, v)

\* One validator contributed two different signatures for one input and the
\* result was returned.
C3_Witness ==
    /\ collected.tag = "Some"
    /\ \E j \in 1..Len(msgs), k \in 1..Len(msgs) :
           j < k /\ SamePair(msgs[j], msgs[k])
                 /\ msgs[j].signature # msgs[k].signature

\* C4 as stated: a second copy of a stored contribution, at any later
\* position, leaves the outcome of collect_signatures unchanged.
C4_DuplicateAnywhere ==
    collected # NotCalled =>
        \A j \in 1..Len(msgs) : \A p \in (j + 1)..(Len(msgs) + 1) :
            collect_signatures(proposal, validators, majority_count,
                               InsertAt(msgs, p, msgs[j])) = collected

\* C4 amended: the copy leaves the outcome unchanged when no contribution of
\* the same pair with a different signature lies between the original and it.
C4_DuplicateNoOverwriteBetween ==
    collected # NotCalled =>
        \A j \in 1..Len(msgs) : \A p \in (j + 1)..(Len(msgs) + 1) :
            (\A k \in (j + 1)..(p - 1) :
                 SamePair(msgs[k], msgs[j]) => msgs[k].signature = msgs[j].signature)
            => collect_signatures(proposal, validators, majority_count,
                                  InsertAt(msgs, p, msgs[j])) = collected

\* A result was returned and a copy of the first contribution can follow a
\* contribution of another pair.
C4_Witness ==
    /\ collected.tag = "Some"
    /\ Len(msgs) >= 2
    /\ ~SamePair(msgs[1], msgs[2])

\* C9: every admitted contribution has a validator index below the
\* validator-set size and an input of the proposal, and collect_signatures
\* never aborts.
C9_AdmittedInRange == InRange(msgs) /\ collected # Aborted

\* C5: when the handler's per-block step fails with an RPC error,
\* handle_commit returns Ok(()) to the host.
C5_RpcFailureReturnsOk ==
    (last.call = "commit" /\ IsRpcErr(last.cause)) => last.ret = RetOk(Nothing)

\* A commit whose step failed with an RPC error has returned and was logged.
C5_Witness ==
    last.call = "commit" /\ IsRpcErr(last.cause) /\ logged > 0 /\ pc = "idle"

\* C6: a callback returns Err(e) only for a storage failure, with the error e
\* the handler or the schema reported: handle_commit returns Err(e) exactly
\* when the step gave Storage(e), handle_genesis_block returns the error of
\* create_genesis_config.
C6_OnlyStorageErrors ==
    /\ (last.call = "commit" /\ last.ret # Panicked) =>
           \A e \in StorageErrors \cup RpcErrors :
               last.ret = RetErr(e) <=> last.cause = StorageErr(e)
    /\ (last.call = "commit" /\ IsStorageErr(last.cause)) =>
           last.ret = RetErr(last.cause[2])
    /\ (last.call = "genesis" /\ last.ret # Panicked) =>
           /\ \A e \in StorageErrors \cup RpcErrors :
                  last.ret = RetErr(e) <=> last.cause = StorageErr(e)
           /\ last.cause = Ok <=> last.ret[1] = "Ok"

\* A commit returned the second storage error.
C6_Witness == last.call = "commit" /\ last.ret = RetErr("io2")

\* C7: a handle_genesis_block call whose importaddress failed does not end in a
\* panic; the node keeps running and the failure is logged.
C7_GenesisRpcRecoverable ==
    (last.call = "genesis" /\ IsRpcErr(last.cause)) =>
        last.ret # Panicked /\ node = "running" /\ logged > 0

\* C8: every handle_commit call that is over acquired the handler, ran the
\* per-block step and returned to the host.
C8_LaterCommitsComplete ==
    pc \in {"idle", "dead"} => steps = calls /\ returns = calls

\* C10: a successful handle_genesis_block has registered the address of the
\* genesis configuration, persisted that configuration and returned it; a
\* persisted configuration always has its address registered.
C10_RegisteredBeforePersisted ==
    /\ (last.call = "genesis" /\ last.ret # Panicked /\ last.ret[1] = "Ok") =>
           /\ Address(genesis) \in imported
           /\ stored = <<genesis>>
           /\ last.ret = RetOk(to_json(genesis))
    /\ stored # Nothing => Address(stored[1]) \in imported

\* handle_genesis_block returned the configuration.
C10_Witness ==
    last.call = "genesis" /\ last.ret = RetOk(to_json(genesis)) /\ stored # Nothing

\* C11: state_hash returns Ok with no hashes in every ledger state, whatever
\* signatures, announcements or configuration the view holds.
C11_StateHashEmpty == hashes # Nothing => hashes = RetOk(<<>>)

\* state_hash was called on a view with a signature, an announcement and a
\* configuration.
C11_Witness ==
    /\ hashes = RetOk(<<>>)
    /\ msgs # <<>>
    /\ stored # Nothing
    /\ \E v \in DOMAIN lects : lects[v] # NoTx

\* C12: the agreed LECT changes only to a transaction that majority_count
\* validators announce; a step after which no transaction has that many
\* announcers leaves it unchanged.
C12_LectNeedsMajority ==
    [][/\ lect' # lect =>
              Cardinality(Announcers(lects', lect')) >= majority_count
       /\ (\A t \in TxIds : Cardinality(Announcers(lects', t)) < majority_count)
              => lect' = lect]_vars

\* Validators announce different transactions, none with a majority, and the
\* LECT is still the funding transaction.
C12_Witness ==
    /\ lect = Funding
    /\ majority_count >= 2
    /\ \E v \in DOMAIN lects, w \in DOMAIN lects :
           lects[v] = "txA" /\ lects[w] = "txB"

\* The k-th member of S in ascending order.
Nth(S, k) == CHOOSE v \in S : Rank(S, v) = k
RemoveAt(ms, p) == SubSeq(ms, 1, p - 1) \o SubSeq(ms, p + 1, Len(ms))
SwapAt(ms, k) ==
    [j \in 1..Len(ms) |-> IF j = k THEN ms[k + 1] ELSE IF j = k + 1 THEN ms[k] ELSE ms[j]]
Prefix(ms, k) == SubSeq(ms, 1, k)
Slots(ms) == ApplyMsgs(InitSignatures(proposal, validators), ms)
Outcome(ms) == collect_signatures(proposal, validators, majority_count, ms)

\* C13: every returned sequence has exactly majority_count entries: the last
\* signatures of the majority_count lowest-indexed contributors of the input,
\* in that order; contributors with higher indices are left out.
C13_ExactlyMajorityLowest ==
    collected.tag = "Some" =>
        \A i \in proposal :
            /\ Len(collected.map[i]) = majority_count
            /\ collected.map[i] =
                   [k \in 1..majority_count |->
                        LastSig(msgs, i, Nth(Contributors(msgs, i), k))]

\* A result was returned for an input with more contributors than
\* majority_count.
C13_Witness ==
    /\ collected.tag = "Some"
    /\ \E i \in proposal : Cardinality(Contributors(msgs, i)) > majority_count

\* C14: a contribution for input i leaves the slot array and the returned
\* sequence of every other input as they are without it, and every returned
\* signature of an input was contributed for that input.
C14_ScopedToInput ==
    /\ \A p \in 1..Len(msgs) :
           LET with == Slots(msgs)
               without == Slots(RemoveAt(msgs, p))
               out == Outcome(RemoveAt(msgs, p))
           IN  /\ with.ok =>
                      /\ without.ok
                      /\ \A j \in proposal \ {msgs[p].input} :
                             with.slots[j] = without.slots[j]
               /\ (collected.tag = "Some" /\ out.tag = "Some") =>
                      \A j \in proposal \ {msgs[p].input} :
                          collected.map[j] = out.map[j]
    /\ collected.tag = "Some" =>
           \A j \in proposal : \A k \in 1..Len(collected.map[j]) :
               \E x \in Range(msgs) :
                   x.input = j /\ x.signature = collected.map[j][k]

\* A result for two inputs that were given different signatures.
C14_Witness ==
    /\ collected.tag = "Some"
    /\ \E j \in 1..Len(msgs), k \in 1..Len(msgs) :
           /\ msgs[j].input # msgs[k].input
           /\ msgs[j].signature # msgs[k].signature

\* C15: collect_signatures returns None for every prefix of the stored
\* messages in which some input has fewer than majority_count contributors,
\* and once it returns a result for a prefix it returns one for every longer
\* prefix.
C15_Monotone ==
    \A q \in 0..Len(msgs) :
        /\ ~Enough(Prefix(msgs, q)) => Outcome(Prefix(msgs, q)) = Incomplete
        /\ \A p \in 0..q :
               Outcome(Prefix(msgs, p)).tag = "Some" =>
                   Outcome(Prefix(msgs, q)).tag = "Some"

\* C15 on the sequences whose indices are all in range (the part of the claim
\* that the code keeps).
C15_MonotoneInRange == InRange(msgs) => C15_Monotone

\* C17: the outcome depends only on the last contribution of each (input,
\* validator) pair.  Two sequences with the same last signature of every pair
\* differ by removals of overwritten contributions and by exchanges of
\* neighbours of different pairs; neither changes the outcome.
C17_DependsOnLastOnly ==
    collected # NotCalled =>
        /\ \A k \in 1..(Len(msgs) - 1) :
               ~SamePair(msgs[k], msgs[k + 1]) =>
                   Outcome(SwapAt(msgs, k)) = collected
        /\ \A j \in 1..Len(msgs) :
               (\E k \in (j + 1)..Len(msgs) : SamePair(msgs[j], msgs[k])) =>
                   Outcome(RemoveAt(msgs, j)) = collected

\* A result was returned for two contributions of one input by different
\* validators with different signatures.
C17_Witness ==
    /\ collected.tag = "Some"
    /\ Len(msgs) >= 2
    /\ msgs[1].input = msgs[2].input
    /\ msgs[1].validator # msgs[2].validator
    /\ msgs[1].signature # msgs[2].signature

\* C18: the keys of a returned result are exactly the inputs of the proposal,
\* and a proposal with no inputs gives a complete, empty result for any
\* contribution sequence.
C18_KeysAndEmptyProposal ==
    collected # NotCalled =>
        /\ collected.tag = "Some" => DOMAIN collected.map = proposal
        /\ proposal = {} => (collected.tag = "Some" /\ DOMAIN collected.map = {})

\* The first half of C18 alone (the part of the claim that the code keeps).
C18_KeysAreInputs ==
    collected.tag = "Some" => DOMAIN collected.map = proposal

\* The host thread is between lock() and the release of the guard.
HostInside == pc \in {"g_import", "g_persist", "c_step", "c_match"}

\* C16: the host's callbacks and a thread that got the handler through
\* handler() are never inside the handler together; whoever is inside owns the
\* mutex, and the per-block step runs while no other thread is inside.
C16_MutualExclusion ==
    /\ ~(HostInside /\ apc = "in")
    /\ HostInside => owner = "host"
    /\ apc = "in" => owner = "api"
    /\ pc = "c_step" => apc # "in"

\* The second thread is inside the handler between two commits of the host.
C16_Witness ==
    apc = "in" /\ pc = "idle" /\ returns >= 1 /\ calls < MaxHeight /\ ~poisoned

====
